---- MODULE Spec2Model ----
(***************************************************************************)
(* Selection assembly (src/unnamed/part_000) and legend parsing            *)
(* (src/src/compile/legend/parse.ts) of the visualization compiler.        *)
(*                                                                         *)
(* Strings are sequences of tokens: the concatenation of the tokens of a   *)
(* sequence is the JavaScript string.  Names that the code transforms      *)
(* character by character (varName) are sequences of one-character tokens. *)
(* undefined is the value U, a defined optional value v is Def(v).         *)
(***************************************************************************)
EXTENDS Integers, Sequences, FiniteSets, TLC

VARIABLES
  \* assembleSelectionPredicate
  pSel,        \* the model's selection components, by variable name
  pTree,       \* the logical operand tree handed in
  pChain,      \* the data pipeline above the insertion point, nearest parent first
  pResult,     \* the string returned by the last call
  pCalls,      \* number of calls made
  \* the unit view handed to interactiveLegendExists and to the signal assembly
  vParent,     \* whether model.parent is set
  vSelections, \* model.component.selection, in iteration order
  vEncoding,   \* model.fieldDef(channel) for the legend channels
  leResult,    \* the list returned by interactiveLegendExists
  leDone,      \* whether it has been called
  \* assembleUnitSelectionData
  data,        \* the data list handed from call to call
  dInit,       \* the data list before the first call
  dPrev,       \* the data list before the last call
  dView,       \* the selection components of the view of the last call
  dSeen,       \* the selection names of the views of all calls
  dSeenPrev,   \* the selection names of the views of all calls but the last
  dCalls,      \* number of calls made
  \* assembleTopLevelSignals
  tSignals,    \* the top-level signal list handed from call to call
  tSeen,       \* the selection names of the views of all calls
  tCalls,      \* number of calls made
  \* assembleSelectionScaleDomain
  sdOwn,       \* whether model.component.selection holds the named selection
  sdProject,   \* project of the selection an ancestor registers under the name, if any
  sdDomain,    \* the parsed selection domain: selection, encoding, field
  sdResult,    \* the signal returned
  sdWarnings,  \* the warnings logged, in order
  sdDone,      \* "no", "returned" or "threw"
  \* mergeLegendComponent
  mMerged,     \* the running parent component handed in, if any
  mChild,      \* the child component handed in
  mHeap,       \* the encode objects, by reference
  mMerged0,    \* mMerged and mHeap as they were before the call
  mHeap0,
  mResult,     \* the component returned, U for undefined
  mDone,       \* whether the call has been made
  \* parseNonUnitLegend, for one channel of a composite view
  nCount,      \* number of children of the view
  nNext,       \* the child the loop is at
  nLegend,     \* the view's own legends[channel], if any
  nResolve,    \* resolve.legend[channel] of the view, if set
  nScale,      \* resolve.scale[channel] of the view
  nChildren,   \* child.component.legends[channel] of each child parsed, if any
  nProduced,   \* the same as parseLegend(child) produced them
  nHeap,       \* the encode objects, by reference
  nHeap0,      \* the encode objects of the children as produced
  nConflict,   \* the child at which a merge returned undefined, 0 if none
  nDone,       \* whether parseNonUnitLegend has returned
  \* assembleUnitSelectionSignals, on the unit view
  sIn,         \* the signal list handed in
  sBase,       \* the list after the loop over the selections (line 52)
  sSignals,    \* the list returned, or as it is when the call throws
  sDone,       \* "no", "returned" or "threw"
  \* parseLegendForChannel, on the same unit view
  lChannel,    \* the channel whose legend is parsed
  lIn,         \* the legend encode block before the interactive rewrite (line 114)
  lEncode      \* undefined, or the encode block after line 119

predVars == <<pSel, pTree, pChain, pResult, pCalls>>
viewVars == <<vParent, vSelections, vEncoding>>
leVars == <<leResult, leDone>>

dataVars == <<data, dInit, dPrev, dView, dSeen, dSeenPrev, dCalls>>
topVars == <<tSignals, tSeen, tCalls>>

sdVars == <<sdOwn, sdProject, sdDomain, sdResult, sdWarnings, sdDone>>

mergeVars == <<mMerged, mChild, mHeap, mMerged0, mHeap0, mResult, mDone>>

nonUnitVars == <<nCount, nNext, nLegend, nResolve, nScale, nChildren, nProduced, nHeap, nHeap0,
                 nConflict, nDone>>

sigVars == <<sIn, sBase, sSignals, sDone>>

bindVars == <<lChannel, lIn, lEncode>>

vars == <<predVars, viewVars, leVars, dataVars, topVars, sdVars, mergeVars, nonUnitVars, sigVars, bindVars>>

\* an optional value: undefined, or a defined value v held as Def(v)
U == <<>>
Def(v) == <<v>>
Val(o) == o[1]

\* the state of the parts a specification does not exercise
IdlePred ==
  /\ pSel = <<>> /\ pTree = <<>> /\ pChain = <<>> /\ pResult = <<>> /\ pCalls = 0
IdleView == vParent = FALSE /\ vSelections = <<>> /\ vEncoding = <<>>
IdleLe == leResult = <<>> /\ leDone = FALSE
IdleData ==
  /\ data = <<>> /\ dInit = <<>> /\ dPrev = <<>> /\ dView = <<>>
  /\ dSeen = {} /\ dSeenPrev = {} /\ dCalls = 0
IdleTop == tSignals = <<>> /\ tSeen = {} /\ tCalls = 0
IdleSd ==
  /\ sdOwn = FALSE /\ sdProject = <<>> /\ sdDomain = <<>> /\ sdResult = <<>>
  /\ sdWarnings = <<>> /\ sdDone = "no"
IdleMerge ==
  /\ mMerged = <<>> /\ mChild = <<>> /\ mHeap = <<>> /\ mMerged0 = <<>> /\ mHeap0 = <<>>
  /\ mResult = <<>> /\ mDone = FALSE
IdleNonUnit ==
  /\ nCount = 0 /\ nNext = 0 /\ nLegend = <<>> /\ nResolve = <<>> /\ nScale = "shared"
  /\ nChildren = <<>> /\ nProduced = <<>> /\ nHeap = <<>> /\ nHeap0 = <<>>
  /\ nConflict = 0 /\ nDone = FALSE
IdleSig == sIn = <<>> /\ sBase = <<>> /\ sSignals = <<>> /\ sDone = "no"
IdleBind == lChannel = "none" /\ lIn = <<>> /\ lEncode = <<>>

----------------------------------------------------------------------------
(* Sequence helpers *)

RECURSIVE Concat(_)
Concat(ss) == IF ss = <<>> THEN <<>> ELSE Head(ss) \o Concat(Tail(ss))

RECURSIVE Join(_, _)
Join(ss, sep) ==
  IF ss = <<>> THEN <<>>
  ELSE IF Len(ss) = 1 THEN ss[1]
  ELSE ss[1] \o sep \o Join(Tail(ss), sep)

Range(s) == {s[i] : i \in 1..Len(s)}

IndexOf(s, v) ==
  IF v \in Range(s) THEN CHOOSE i \in 1..Len(s) : s[i] = v /\ \A j \in 1..(i-1) : s[j] # v
  ELSE 0

\* a.filter((v, i, a) => a.indexOf(v) === i)
Unique(s) == SelectSeq([i \in 1..Len(s) |-> <<s[i], i>>],
                       LAMBDA p : IndexOf(s, p[1]) = p[2])

UniqueElems(s) == [i \in 1..Len(Unique(s)) |-> Unique(s)[i][1]]

----------------------------------------------------------------------------
(* Names and string helpers *)

\* the characters \w matches: letters, digits and the underscore
DigitChars ==
  {"0", "1", "2", "3", "4", "5", "6", "7", "8", "9"}

WordChars ==
  {"a", "b", "c", "d", "e", "f", "g", "h", "i", "j", "k", "l", "m", "n", "o", "p", "q",
   "r", "s", "t", "u", "v", "w", "x", "y", "z", "A", "B", "C", "D", "E", "F", "G", "H",
   "I", "J", "K", "L", "M", "N", "O", "P", "Q", "R", "S", "T", "U", "V", "W", "X", "Y",
   "Z"}
    \cup DigitChars \cup {"_"}

\* util.varName: s.replace(/\W/g, '_'), with a leading '_' when s starts with a digit
varName(s) ==
  (IF Len(s) > 0 /\ s[1] \in DigitChars THEN <<"_">> ELSE <<>>)
    \o [i \in 1..Len(s) |-> IF s[i] \in WordChars THEN s[i] ELSE "_"]

\* vega-util stringValue of a plain string: the JSON string literal
stringValue(s) == <<"\"">> \o s \o <<"\"">>

STORE == <<"_store">>
TUPLE == <<"_tuple">>
MODIFY == <<"_modify">>
LEGEND == <<"_legend">>

----------------------------------------------------------------------------
(* Selection components and views; the unit view: its selection components and its legend channel encodings *)

MaxSel == 2

Fields == {"a", "b", "c"}

\* selCmpt['fields'] of the selections: absent, or the projected fields
SelFieldsPool == {U, Def(<<"a">>), Def(<<"b">>), Def(<<"a", "b">>), Def(<<"c">>)}

SelName(i) == <<"sel", ToString(i)>>

\* a selection component: its (variable) name, its projected fields if any, its
\* resolve policy and whether the toggle transform applies to it
SelectionComponent(name, fields, resolve, toggle) ==
  [name |-> name, fields |-> fields, resolve |-> resolve, toggle |-> toggle]

\* the selection names views may declare
NamePool == {<<"brush">>, <<"pick">>, <<"unit">>}

ResolvePool == {"global", "union"}

\* the sequences over S without repetition, up to length n
RECURSIVE DistinctSeqs(_, _)
DistinctSeqs(S, n) ==
  IF n = 0 THEN {<<>>}
  ELSE LET R == DistinctSeqs(S, n - 1) IN
       R \cup UNION {{Append(r, x) : x \in S \ Range(r)} : r \in {q \in R : Len(q) = n - 1}}

\* the selection dictionaries of the views: distinct names, any resolve
NamedViews ==
  { v \in DistinctSeqs({SelectionComponent(n, U, r, TRUE) : n \in NamePool, r \in ResolvePool},
                       MaxSel) :
      \A i, j \in 1..Len(v) : v[i].name = v[j].name => i = j }

LegendChannels == <<"color", "opacity", "size", "shape">>

FieldDef(f, bin, agg, tu) == [field |-> f, bin |-> bin, aggregate |-> agg, timeUnit |-> tu]

FieldDefPool ==
  { Def(FieldDef("a", FALSE, FALSE, FALSE)), Def(FieldDef("b", FALSE, FALSE, FALSE)),
    Def(FieldDef("a", TRUE, FALSE, FALSE)), Def(FieldDef("b", FALSE, TRUE, FALSE)),
    Def(FieldDef("c", FALSE, FALSE, TRUE)) }

----------------------------------------------------------------------------
(* interactiveLegendExists *)

\* forEachSelection: the components of model.component.selection in key order
forEachSelection(selections) == selections

InteractiveSelection(selCmpt) ==
  [name |-> selCmpt.name, store |-> stringValue(selCmpt.name \o STORE),
   fields |-> Val(selCmpt.fields)]

\* lines 148-159: the fields of the color/opacity/size/shape field definitions
encodingFieldsAnyDef(encoding) ==
  UniqueElems(Concat([i \in 1..Len(LegendChannels) |->
    LET fieldDef == encoding[LegendChannels[i]] IN
    IF fieldDef # U THEN <<Val(fieldDef).field>> ELSE <<>>]))

encodingFields(encoding) ==
  UniqueElems(Concat([i \in 1..Len(LegendChannels) |->
    LET fieldDef == encoding[LegendChannels[i]] IN
    IF fieldDef # U /\ ~(Val(fieldDef).bin \/ Val(fieldDef).aggregate \/ Val(fieldDef).timeUnit)
    THEN <<Val(fieldDef).field>> ELSE <<>>]))

\* line 160: selectionFields.filter(x => encodingFields.indexOf(x) === -1)
differenceFieldsNone(selectionFields, encFields) == <<>>

differenceFields(selectionFields, encFields) ==
  SelectSeq(selectionFields, LAMBDA x : IndexOf(encFields, x) = 0)

interactiveLegendExists(parent, selCmpts, encoding) ==
  IF parent THEN <<>>
  ELSE
    LET projecting == SelectSeq(forEachSelection(selCmpts), LAMBDA c : c.fields # U)
        selections == [i \in 1..Len(projecting) |-> InteractiveSelection(projecting[i])]
        selectionFields == UniqueElems(Concat([i \in 1..Len(selections) |-> selections[i].fields]))
    IN IF Len(selections) = 0 THEN <<>>
       ELSE IF Len(differenceFields(selectionFields, encodingFields(encoding))) > 0 THEN <<>>
       ELSE selections

SelCmpt(i, fields) == SelectionComponent(SelName(i), fields, "global", TRUE)

ViewSelections ==
  UNION { {[i \in 1..n |-> SelCmpt(i, fs[i])] : fs \in [1..n -> SelFieldsPool]} : n \in 0..MaxSel }

ViewEncodings == [Range(LegendChannels) -> FieldDefPool \cup {U}]

InitLegend ==
  /\ IdlePred /\ IdleData /\ IdleTop /\ IdleSd /\ IdleMerge /\ IdleNonUnit /\ IdleSig /\ IdleBind
  /\ vParent \in BOOLEAN
  /\ vSelections \in ViewSelections
  /\ vEncoding \in ViewEncodings
  /\ leResult = <<>>
  /\ leDone = FALSE

InteractiveLegendExists ==
  /\ ~leDone
  /\ leResult' = interactiveLegendExists(vParent, vSelections, vEncoding)
  /\ leDone' = TRUE
  /\ UNCHANGED <<predVars, viewVars, dataVars, topVars, sdVars, mergeVars, nonUnitVars, sigVars, bindVars>>

NextLegend == InteractiveLegendExists

SpecLegend == InitLegend /\ [][NextLegend]_vars

\* the fields projected by the field-projecting selections, and the fields the four
\* legend channels encode without bin, aggregate or timeUnit
ProjectingSelections == SelectSeq(vSelections, LAMBDA c : c.fields # U)

SelectionFieldSet ==
  UNION {Range(Val(vSelections[i].fields)) :
           i \in {j \in 1..Len(vSelections) : vSelections[j].fields # U}}

EncodedFieldSet ==
  {Val(vEncoding[ch]).field : ch \in {c \in Range(LegendChannels) :
      /\ vEncoding[c] # U
      /\ ~Val(vEncoding[c]).bin /\ ~Val(vEncoding[c]).aggregate /\ ~Val(vEncoding[c]).timeUnit}}

\* C2 as stated: a non-empty result only for a root view whose selection field set
\* EQUALS the encoded field set.
C2_Original ==
  (leDone /\ leResult # <<>>) => (~vParent /\ SelectionFieldSet = EncodedFieldSet)

\* what lines 128-164 check instead: the result is the list of the field-projecting
\* selections when the view is a root view, some selection projects fields and the
\* selection field set is CONTAINED IN the encoded field set; it is empty otherwise.
C2_SubsetOnly ==
  leDone =>
    IF ~vParent /\ ProjectingSelections # <<>> /\ SelectionFieldSet \subseteq EncodedFieldSet
    THEN /\ Len(leResult) = Len(ProjectingSelections)
         /\ \A i \in 1..Len(leResult) :
               /\ leResult[i].name = ProjectingSelections[i].name
               /\ leResult[i].fields = Val(ProjectingSelections[i].fields)
    ELSE leResult = <<>>

\* a root view whose selections project strictly fewer fields than are encoded got a
\* non-empty list
C2_Witness ==
  /\ leDone /\ leResult # <<>> /\ ~vParent
  /\ SelectionFieldSet # EncodedFieldSet
  /\ SelectionFieldSet \subseteq EncodedFieldSet

\* C3: the result is empty whenever some projected field of a field-projecting
\* selection is not among the fields encoded (without bin, aggregate or timeUnit) by
\* color, opacity, size or shape.
C3_UncoveredFieldEmpty ==
  (leDone /\ SelectionFieldSet \ EncodedFieldSet # {}) => leResult = <<>>

\* a root view projecting {a, b} where a is encoded and b is encoded only under an
\* aggregate has been evaluated
C3_Witness ==
  /\ leDone /\ ~vParent
  /\ SelectionFieldSet = {"a", "b"}
  /\ EncodedFieldSet = {"a"}
  /\ \E c \in Range(LegendChannels) :
        vEncoding[c] # U /\ Val(vEncoding[c]).field = "b" /\ Val(vEncoding[c]).aggregate
  /\ leResult = <<>>

----------------------------------------------------------------------------
(* assembleSelectionPredicate *)

MaxDepth == 1
MaxCalls == 2

RawNames == {<<"a">>, <<"b", "-", "c">>, <<"1", "x">>}

Leaf(n) == [op |-> "leaf", name |-> n, args |-> <<>>]
Not(t) == [op |-> "not", name |-> <<>>, args |-> <<t>>]
And(ts) == [op |-> "and", name |-> <<>>, args |-> ts]
Or(ts) == [op |-> "or", name |-> <<>>, args |-> ts]

RECURSIVE TreesOfDepth(_)
TreesOfDepth(d) ==
  IF d = 0 THEN {Leaf(n) : n \in RawNames}
  ELSE LET S == TreesOfDepth(d - 1) IN
       S \cup {Not(t) : t \in S}
         \cup {And(<<t>>) : t \in S} \cup {And(<<t, u>>) : t \in S, u \in S}
         \cup {Or(<<t>>) : t \in S} \cup {Or(<<t, u>>) : t \in S, u \in S}

SelCmptPool ==
  { [empty |-> "all", resolve |-> "global", timeUnit |-> FALSE],
    [empty |-> "none", resolve |-> "global", timeUnit |-> FALSE],
    [empty |-> "all", resolve |-> "union", timeUnit |-> TRUE],
    [empty |-> "none", resolve |-> "intersect", timeUnit |-> TRUE] }

\* nodes of the data pipeline: the source above the insertion point, and the clone of
\* a selection's time unit node
SourceNode == [kind |-> "source", of |-> <<>>]
TimeUnitNode(vname) == [kind |-> "timeunit", of |-> vname]

\* Model.getSelectionComponent(vname, name): the component registered under vname
getSelectionComponent(sel, vname) == sel[vname]

\* the closure expr(name) of assembleSelectionPredicate; st holds the captured
\* stores array and the pipeline it edits
exprAllStores(sel, name, st) ==
  LET vname == varName(name)
      selCmpt == getSelectionComponent(sel, vname)
      store == stringValue(vname \o STORE)
  IN [str |-> <<"vlSelectionTest(">> \o store \o <<", datum">>
               \o (IF selCmpt.resolve = "global" THEN <<")">>
                   ELSE <<", ">> \o stringValue(<<selCmpt.resolve>>) \o <<")">>),
      stores |-> Append(st.stores, store),
      chain |-> IF selCmpt.timeUnit THEN <<TimeUnitNode(vname)>> \o st.chain
                ELSE st.chain]

expr(sel, name, st) ==
  LET vname == varName(name)
      selCmpt == getSelectionComponent(sel, vname)
      store == stringValue(vname \o STORE)
  IN [str |-> <<"vlSelectionTest(">> \o store \o <<", datum">>
               \o (IF selCmpt.resolve = "global" THEN <<")">>
                   ELSE <<", ">> \o stringValue(<<selCmpt.resolve>>) \o <<")">>),
      stores |-> IF selCmpt.empty # "none" THEN Append(st.stores, store) ELSE st.stores,
      chain |-> IF selCmpt.timeUnit THEN <<TimeUnitNode(vname)>> \o st.chain
                ELSE st.chain]

\* util.logicalExpr(op, cb) with cb = expr; the callback's effects are threaded
\* through st in evaluation order
RECURSIVE logicalExpr(_, _, _)
RECURSIVE logicalExprMap(_, _, _, _)
logicalExprMap(sel, ts, sep, st) ==
  IF ts = <<>> THEN [str |-> <<>>, stores |-> st.stores, chain |-> st.chain]
  ELSE LET h == logicalExpr(sel, Head(ts), st)
           r == logicalExprMap(sel, Tail(ts), sep, h)
       IN [str |-> IF Tail(ts) = <<>> THEN h.str ELSE h.str \o sep \o r.str,
           stores |-> r.stores, chain |-> r.chain]

logicalExpr(sel, t, st) ==
  IF t.op = "not" THEN
    LET r == logicalExpr(sel, t.args[1], st)
    IN [r EXCEPT !.str = <<"!(">> \o r.str \o <<")">>]
  ELSE IF t.op = "and" THEN
    LET r == logicalExprMap(sel, t.args, <<") && (">>, st)
    IN [r EXCEPT !.str = <<"(">> \o r.str \o <<")">>]
  ELSE IF t.op = "or" THEN
    LET r == logicalExprMap(sel, t.args, <<") || (">>, st)
    IN [r EXCEPT !.str = <<"(">> \o r.str \o <<")">>]
  ELSE expr(sel, t.name, st)

assembleSelectionPredicate(sel, selections, chain) ==
  LET r == logicalExpr(sel, selections, [str |-> <<>>, stores |-> <<>>, chain |-> chain])
      lens == [i \in 1..Len(r.stores) |-> <<"length(data(">> \o r.stores[i] \o <<"))">>]
  IN [str |-> (IF Len(r.stores) > 0
               THEN <<"!(">> \o Join(lens, <<" || ">>) \o <<") || ">>
               ELSE <<>>)
              \o <<"(">> \o r.str \o <<")">>,
      chain |-> r.chain]

InitPred ==
  /\ IdleView /\ IdleLe /\ IdleData /\ IdleTop /\ IdleSd /\ IdleMerge /\ IdleNonUnit /\ IdleSig /\ IdleBind
  /\ pSel \in [{varName(n) : n \in RawNames} -> SelCmptPool]
  /\ pTree \in TreesOfDepth(MaxDepth)
  /\ pChain \in {<<>>, <<SourceNode>>}
  /\ pResult = <<>>
  /\ pCalls = 0

AssemblePredicate ==
  /\ pCalls < MaxCalls
  /\ LET r == assembleSelectionPredicate(pSel, pTree, pChain)
     IN /\ pResult' = r.str
        /\ pChain' = r.chain
  /\ pCalls' = pCalls + 1
  /\ UNCHANGED <<pSel, pTree, viewVars, leVars, dataVars, topVars, sdVars, mergeVars, nonUnitVars, sigVars, bindVars>>

NextPred == AssemblePredicate

SpecPred == InitPred /\ [][NextPred]_vars

\* --- C1 ---

\* the leaves of a tree, left to right
RECURSIVE LeavesOf(_)
LeavesOf(t) ==
  IF t.op = "leaf" THEN <<t.name>>
  ELSE Concat([i \in 1..Len(t.args) |-> LeavesOf(t.args[i])])

\* the base predicate: the tree rendered over the per-leaf store tests
RECURSIVE BasePredicate(_, _)
BasePredicate(sel, t) ==
  IF t.op = "leaf" THEN
    <<"vlSelectionTest(", "\"">> \o varName(t.name) \o <<"_store", "\"", ", datum">>
      \o (IF sel[varName(t.name)].resolve = "global" THEN <<")">>
          ELSE <<", ", "\"", sel[varName(t.name)].resolve, "\"", ")">>)
  ELSE IF t.op = "not" THEN <<"!(">> \o BasePredicate(sel, t.args[1]) \o <<")">>
  ELSE <<"(">>
       \o Join([i \in 1..Len(t.args) |-> BasePredicate(sel, t.args[i])],
               IF t.op = "and" THEN <<") && (">> ELSE <<") || (">>)
       \o <<")">>

EmptyStoreLeaves(sel, t) ==
  SelectSeq(LeavesOf(t), LAMBDA n : sel[varName(n)].empty # "none")

EmptyStorePrefix(sel, t) ==
  LET ls == EmptyStoreLeaves(sel, t) IN
  IF ls = <<>> THEN <<>>
  ELSE <<"!(">>
       \o Join([i \in 1..Len(ls) |->
                  <<"length(data(", "\"">> \o varName(ls[i]) \o <<"_store", "\"", "))">>],
               <<" || ">>)
       \o <<") || ">>

\* C1: the assembled predicate is the parenthesised base predicate prefixed by the
\* negated OR of length(data(store)) over exactly the leaves whose selection's empty
\* policy is not 'none', and by nothing when there is no such leaf.
C1_PredicatePrefix ==
  pCalls > 0 =>
    pResult = EmptyStorePrefix(pSel, pTree) \o <<"(">> \o BasePredicate(pSel, pTree) \o <<")">>

\* a tree mixing a leaf with empty 'none' and a leaf with another policy has been assembled
C1_Witness ==
  /\ pCalls > 0
  /\ \E i, j \in 1..Len(LeavesOf(pTree)) :
        /\ pSel[varName(LeavesOf(pTree)[i])].empty = "none"
        /\ pSel[varName(LeavesOf(pTree)[j])].empty # "none"
  /\ Len(EmptyStoreLeaves(pSel, pTree)) < Len(LeavesOf(pTree))

----------------------------------------------------------------------------
(* assembleUnitSelectionData *)

MaxDataCalls == 2

DataEntry(name, values) == [name |-> name, values |-> values]

\* the names of the datasets a data list may hold before the first call
DataNamePool == {<<"source_0">>, <<"brush", "_store">>, <<"pick", "_store">>}

\* line 187: data.filter(d => d.name === selCmpt.name + STORE)
containsByName(d, selCmpt) == SelectSeq(d, LAMBDA e : e.name = selCmpt.name)

contains(d, selCmpt) == SelectSeq(d, LAMBDA e : e.name = selCmpt.name \o STORE)

RECURSIVE assembleUnitSelectionData(_, _)
assembleUnitSelectionData(selCmpts, d) ==
  IF selCmpts = <<>> THEN d
  ELSE LET selCmpt == Head(forEachSelection(selCmpts)) IN
       assembleUnitSelectionData(Tail(selCmpts),
         IF Len(contains(d, selCmpt)) = 0
         THEN Append(d, DataEntry(selCmpt.name \o STORE, U))
         ELSE d)

InitData ==
  /\ IdlePred /\ IdleView /\ IdleLe /\ IdleTop /\ IdleSd /\ IdleMerge /\ IdleNonUnit /\ IdleSig /\ IdleBind
  /\ \E ns \in DistinctSeqs(DataNamePool, 2) :
       data \in {[i \in 1..Len(ns) |-> DataEntry(ns[i], vs[i])] :
                   vs \in [1..Len(ns) -> {U, Def("given")}]}
  /\ dInit = data
  /\ dPrev = data
  /\ dView = <<>>
  /\ dSeen = {}
  /\ dSeenPrev = {}
  /\ dCalls = 0

AssembleUnitSelectionData ==
  /\ dCalls < MaxDataCalls
  /\ \E v \in NamedViews :
       /\ data' = assembleUnitSelectionData(v, data)
       /\ dView' = v
       /\ dSeen' = dSeen \cup {v[i].name : i \in 1..Len(v)}
  /\ dPrev' = data
  /\ dSeenPrev' = dSeen
  /\ dCalls' = dCalls + 1
  /\ UNCHANGED <<dInit, predVars, viewVars, leVars, topVars, sdVars, mergeVars, nonUnitVars, sigVars, bindVars>>

NextData == AssembleUnitSelectionData

SpecData == InitData /\ [][NextData]_vars

EntriesNamed(d, n) == {i \in 1..Len(d) : d[i].name = n}

\* C4: the data list never holds two entries of one name; it holds exactly one
\* entry <selection>_store for each selection seen; the entries present before the
\* first call are kept unchanged and in place; and a call for a view whose
\* selections were all seen before (a second call on the same view in particular)
\* leaves the list unchanged.
C4_NoDuplicateStore ==
  /\ \A i, j \in 1..Len(data) : data[i].name = data[j].name => i = j
  /\ \A n \in dSeen : Cardinality(EntriesNamed(data, n \o STORE)) = 1
  /\ Len(data) >= Len(dInit) /\ SubSeq(data, 1, Len(dInit)) = dInit
  /\ \A i \in (Len(dInit) + 1)..Len(data) :
        \E n \in dSeen : data[i] = DataEntry(n \o STORE, U)
  /\ (dCalls > 0 /\ {dView[i].name : i \in 1..Len(dView)} \subseteq dSeenPrev) => data = dPrev

\* the same non-empty view was assembled twice over a list that already held one of
\* its stores, and the first call added a store
C4_Witness ==
  /\ dCalls = 2
  /\ Len(dView) = 2
  /\ {dView[i].name : i \in 1..Len(dView)} = dSeenPrev
  /\ data = dPrev
  /\ Len(data) > Len(dInit)
  /\ \E i \in 1..Len(dInit) : \E n \in dSeen : dInit[i].name = n \o STORE /\ dInit[i].values # U

----------------------------------------------------------------------------
(* assembleTopLevelSignals *)

MaxTopCalls == 2

VL_SELECTION_RESOLVE == <<"vlSelectionResolve">>

Signal(name, update, on) == [name |-> name, update |-> update, on |-> on]

\* lines 151-156
ResolutionSignal(selCmpt) ==
  Signal(selCmpt.name,
         VL_SELECTION_RESOLVE \o <<"(">> \o stringValue(selCmpt.name \o STORE)
           \o (IF selCmpt.resolve = "global" THEN <<")">>
               ELSE <<", ">> \o stringValue(<<selCmpt.resolve>>) \o <<")">>),
         <<>>)

\* lines 174-178
UnitSignal ==
  Signal(<<"unit">>, <<>>,
         <<[events |-> <<"mousemove">>, update |-> <<"isTuple(group()) ? group() : unit">>]>>)

SignalsNamed(signals, n) == SelectSeq(signals, LAMBDA sg : sg.name = n)

\* lines 146-169: the loop over the selections; the selection types and transforms
\* modelled contribute no top-level signals
RECURSIVE topLevelLoop(_, _)
topLevelLoop(selCmpts, signals) ==
  IF selCmpts = <<>> THEN signals
  ELSE LET selCmpt == Head(forEachSelection(selCmpts))
           hasSg == SignalsNamed(signals, selCmpt.name)
       IN topLevelLoop(Tail(selCmpts),
            IF Len(hasSg) = 0 THEN Append(signals, ResolutionSignal(selCmpt)) ELSE signals)

assembleTopLevelSignals(selCmpts, signals) ==
  LET hasSelections == Len(selCmpts) > 0
      sgs == topLevelLoop(selCmpts, signals)
      hasUnit == SignalsNamed(sgs, <<"unit">>)
  IN IF hasSelections /\ Len(hasUnit) = 0 THEN <<UnitSignal>> \o sgs ELSE sgs

InitTop ==
  /\ IdlePred /\ IdleView /\ IdleLe /\ IdleData /\ IdleSd /\ IdleMerge /\ IdleNonUnit /\ IdleSig /\ IdleBind
  /\ tSignals = <<>>
  /\ tSeen = {}
  /\ tCalls = 0

AssembleTopLevelSignals ==
  /\ tCalls < MaxTopCalls
  /\ \E v \in NamedViews :
       /\ tSignals' = assembleTopLevelSignals(v, tSignals)
       /\ tSeen' = tSeen \cup {v[i].name : i \in 1..Len(v)}
  /\ tCalls' = tCalls + 1
  /\ UNCHANGED <<predVars, viewVars, leVars, dataVars, sdVars, mergeVars, nonUnitVars, sigVars, bindVars>>

NextTop == AssembleTopLevelSignals

SpecTop == InitTop /\ [][NextTop]_vars

IsResolutionSignal(sg) == sg.on = <<>> /\ Len(sg.update) > 0 /\ sg.update[1] = VL_SELECTION_RESOLVE[1]

\* C8: the list holds exactly one resolution signal per distinct selection name seen
\* and, if any view had a selection, exactly one signal named unit, which is the
\* first element; if no view had a selection the list is unchanged (empty).
C8_TopLevelUnique ==
  /\ \A n \in tSeen :
        Cardinality({i \in 1..Len(tSignals) : tSignals[i].name = n /\ IsResolutionSignal(tSignals[i])}) = 1
  /\ Cardinality({i \in 1..Len(tSignals) : IsResolutionSignal(tSignals[i])}) = Cardinality(tSeen)
  /\ tSeen # {} =>
        /\ Cardinality({i \in 1..Len(tSignals) : tSignals[i].name = <<"unit">>}) = 1
        /\ tSignals[1].name = <<"unit">>
  /\ tSeen = {} => tSignals = <<>>

\* when no view declares a selection named unit, the list is as C8 says
C8_WithoutUnitName ==
  <<"unit">> \notin tSeen =>
    /\ \A i, j \in 1..Len(tSignals) : tSignals[i].name = tSignals[j].name => i = j
    /\ \A n \in tSeen :
          Cardinality({i \in 1..Len(tSignals) :
                         tSignals[i].name = n /\ IsResolutionSignal(tSignals[i])}) = 1
    /\ tSeen # {} => tSignals[1] = UnitSignal
    /\ tSeen = {} => tSignals = <<>>

----------------------------------------------------------------------------
(* assembleSelectionScaleDomain *)

\* the selection names a scale domain may refer to
DomainSelections == {<<"b", "r", "u", "s", "h">>, <<"p", "-", "1">>}

ProjectEntry(field, channel) == [field |-> field, channel |-> channel]

ProjectEntries ==
  { ProjectEntry(<<"a">>, Def("x")), ProjectEntry(<<"b">>, Def("y")),
    ProjectEntry(<<"c">>, Def("x")), ProjectEntry(<<"d">>, U) }

\* selCmpt.project: one or two projection entries
Projects == {<<e>> : e \in ProjectEntries} \cup {<<e, f>> : e \in ProjectEntries, f \in ProjectEntries}

SelectionDomains ==
  [selection : DomainSelections,
   encoding : {U, Def("x"), Def("y")},
   field : {U, Def(<<"a">>), Def(<<"z", "[", "0", "]">>)}]

\* vega-util splitAccessPath(path) on paths of names, dots and brackets: the names
\* between the separators, from position i on, cur being the name read so far
RECURSIVE splitFrom(_, _, _)
splitFrom(path, i, cur) ==
  IF i > Len(path) THEN (IF cur = <<>> THEN <<>> ELSE <<cur>>)
  ELSE IF path[i] \in {".", "[", "]"}
       THEN (IF cur = <<>> THEN <<>> ELSE <<cur>>) \o splitFrom(path, i + 1, <<>>)
       ELSE splitFrom(path, i + 1, Append(cur, path[i]))

splitAccessPath(path) == splitFrom(path, 1, <<>>)

\* util.accessPathWithDatum(path, datum): the accesses of every prefix of the path,
\* joined by ' && '
accessPathWithDatum(path, datum) ==
  LET pieces == splitAccessPath(path)
      prefix(i) == <<"[">> \o Join([j \in 1..i |-> stringValue(pieces[j])], <<"][">>) \o <<"]">>
  IN Join([i \in 1..Len(pieces) |-> datum \o prefix(i)], <<" && ">>)

WarnBindScales ==
  <<"Use \"bind\": \"scales\" to setup a binding for scales and selections within the same view.">>

WarnFieldOrEncoding(field) ==
  <<"A \"field\" or \"encoding\" must be specified when using a selection as a scale domain. ",
    "Using \"field\": ">> \o stringValue(field) \o <<".">>

WarnMatching(none, encoding, selection, field) ==
  <<IF none THEN "No " ELSE "Multiple ", "matching ">> \o stringValue(<<encoding>>)
    \o <<" encoding found for selection ">> \o stringValue(selection) \o <<". ">>
    \o <<"Using \"field\": ">> \o stringValue(field) \o <<".">>

\* lines 272-292: the field the domain resolves to, and the warnings logged on the way
domainFieldEncodingFirst(project, selDomain) ==
  IF selDomain.encoding = U /\ selDomain.field = U THEN
    [field |-> project[1].field,
     warnings |-> IF Len(project) > 1 THEN <<WarnFieldOrEncoding(project[1].field)>> ELSE <<>>]
  ELSE IF selDomain.encoding # U THEN
    LET encodings == SelectSeq(project, LAMBDA p : p.channel = selDomain.encoding)
    IN IF Len(encodings) = 0 \/ Len(encodings) > 1
       THEN [field |-> project[1].field,
             warnings |-> <<WarnMatching(Len(encodings) = 0, Val(selDomain.encoding),
                                         selDomain.selection, project[1].field)>>]
       ELSE [field |-> encodings[1].field, warnings |-> <<>>]
  ELSE [field |-> Val(selDomain.field), warnings |-> <<>>]

domainField(project, selDomain) ==
  IF selDomain.encoding = U /\ selDomain.field = U THEN
    [field |-> project[1].field,
     warnings |-> IF Len(project) > 1 THEN <<WarnFieldOrEncoding(project[1].field)>> ELSE <<>>]
  ELSE IF selDomain.encoding # U /\ selDomain.field = U THEN
    LET encodings == SelectSeq(project, LAMBDA p : p.channel = selDomain.encoding)
    IN IF Len(encodings) = 0 \/ Len(encodings) > 1
       THEN [field |-> project[1].field,
             warnings |-> <<WarnMatching(Len(encodings) = 0, Val(selDomain.encoding),
                                         selDomain.selection, project[1].field)>>]
       ELSE [field |-> encodings[1].field, warnings |-> <<>>]
  ELSE [field |-> Val(selDomain.field), warnings |-> <<>>]

\* own: model.component.selection[name] is set; project: the project of the
\* component model.getSelectionComponent finds, U when it finds none and throws
assembleSelectionScaleDomain(own, project, selDomain) ==
  LET name == varName(selDomain.selection) IN
  IF own THEN [done |-> "returned", signal |-> <<"null">>, warnings |-> <<WarnBindScales>>]
  ELSE IF project = U THEN [done |-> "threw", signal |-> <<>>, warnings |-> <<>>]
  ELSE LET r == domainField(Val(project), selDomain)
       IN [done |-> "returned", signal |-> accessPathWithDatum(r.field, name),
           warnings |-> r.warnings]

InitScaleDomain ==
  /\ IdlePred /\ IdleView /\ IdleLe /\ IdleData /\ IdleTop /\ IdleMerge /\ IdleNonUnit /\ IdleSig /\ IdleBind
  /\ sdOwn \in BOOLEAN
  /\ sdProject \in {U} \cup {Def(p) : p \in Projects}
  /\ sdDomain \in SelectionDomains
  /\ sdResult = <<>>
  /\ sdWarnings = <<>>
  /\ sdDone = "no"

AssembleSelectionScaleDomain ==
  /\ sdDone = "no"
  /\ LET r == assembleSelectionScaleDomain(sdOwn, sdProject, sdDomain)
     IN /\ sdResult' = r.signal
        /\ sdWarnings' = r.warnings
        /\ sdDone' = r.done
  /\ UNCHANGED <<sdOwn, sdProject, sdDomain, predVars, viewVars, leVars, dataVars, topVars, mergeVars, nonUnitVars, sigVars, bindVars>>

NextScaleDomain == AssembleSelectionScaleDomain

SpecScaleDomain == InitScaleDomain /\ [][NextScaleDomain]_vars

\* the projection entries of the selection whose channel is the domain's encoding
MatchingEntries ==
  {i \in 1..Len(Val(sdProject)) : Val(sdProject)[i].channel = sdDomain.encoding}

\* the access of the field under the selection's name; a nested path is guarded by
\* the accesses of its shorter prefixes
FieldAccess(field) ==
  LET ps == splitAccessPath(field)
      access(k) == varName(sdDomain.selection) \o <<"[", "\"">> \o ps[1] \o <<"\"">>
                     \o Concat([j \in 1..(k - 1) |-> <<"][", "\"">> \o ps[j + 1] \o <<"\"">>])
                     \o <<"]">>
  IN Join([k \in 1..Len(ps) |-> access(k)], <<" && ">>)

\* C9: 'null' with one warning and no lookup when the model's own selection
\* components hold the selection; otherwise a field access on the explicit field if
\* given (also when an encoding is given), else on the field of the single projection
\* entry of the given encoding channel, or on the first projected field with a
\* warning when zero or several entries match, else on the first projected field,
\* with a warning exactly when more than one field is projected.
C9_ScaleDomainField ==
  sdDone # "no" =>
    /\ sdOwn => (sdDone = "returned" /\ sdResult = <<"null">> /\ Len(sdWarnings) = 1
                   /\ sdWarnings[1] = WarnBindScales)
    /\ (~sdOwn /\ sdProject # U) =>
         /\ sdDone = "returned"
         /\ sdDomain.field # U =>
              (sdResult = FieldAccess(Val(sdDomain.field)) /\ sdWarnings = <<>>)
         /\ (sdDomain.field = U /\ sdDomain.encoding # U /\ Cardinality(MatchingEntries) = 1) =>
              /\ \E i \in MatchingEntries : sdResult = FieldAccess(Val(sdProject)[i].field)
              /\ sdWarnings = <<>>
         /\ (sdDomain.field = U /\ sdDomain.encoding # U /\ Cardinality(MatchingEntries) # 1) =>
              /\ sdResult = FieldAccess(Val(sdProject)[1].field)
              /\ Len(sdWarnings) = 1
              /\ sdWarnings[1][1] = (IF MatchingEntries = {} THEN "No " ELSE "Multiple ")
         /\ (sdDomain.field = U /\ sdDomain.encoding = U) =>
              /\ sdResult = FieldAccess(Val(sdProject)[1].field)
              /\ (Len(sdWarnings) = 1) = (Len(Val(sdProject)) > 1)
              /\ Len(sdWarnings) <= 1

\* a domain giving both an encoding and a field resolved to the field, where the
\* encoding alone would have resolved to another projected field
C9_Witness ==
  /\ sdDone = "returned" /\ ~sdOwn
  /\ sdDomain.field = Def(<<"a">>) /\ sdDomain.encoding = Def("y")
  /\ Cardinality(MatchingEntries) = 1
  /\ sdResult = FieldAccess(<<"a">>)
  /\ \E i \in MatchingEntries : Val(sdProject)[i].field # <<"a">>

----------------------------------------------------------------------------
(* LegendComponent (a Split of explicit and implicit properties) and           *)
(* mergeLegendComponent.  The value of encode is a reference into a heap of    *)
(* encode objects; an encode object is the set of parts it has an entry for.   *)

\* the legend properties merged, of VG_LEGEND_PROPERTIES
LegendProps == <<"encode", "type", "orient", "title", "symbolType", "format">>

NoProps == [p \in Range(LegendProps) |-> U]

LegendComponent(explicit, implicit) == [explicit |-> explicit, implicit |-> implicit]

Explicit(explicit, value) == [explicit |-> explicit, value |-> value]

\* split.makeImplicit
makeImplicit(value) == Explicit(FALSE, Def(value))

\* Split.getWithExplicit
getWithExplicit(l, key) ==
  IF l.explicit[key] # U THEN Explicit(TRUE, l.explicit[key])
  ELSE IF l.implicit[key] # U THEN Explicit(FALSE, l.implicit[key])
  ELSE Explicit(FALSE, U)

\* Split.set: the value is stored as given (an object by reference)
set(l, key, value, explicit) ==
  IF explicit
  THEN [l EXCEPT !.implicit[key] = U, !.explicit[key] = value]
  ELSE [l EXCEPT !.explicit[key] = U, !.implicit[key] = value]

\* Split.setWithExplicit
setWithExplicit(l, key, v) ==
  IF v.value # U THEN set(l, key, v.value, v.explicit) ELSE l

\* Split.clone: duplicate(explicit), duplicate(implicit); the copy of an encode
\* object is a new object, allocated at id
clone(l, heap, id) ==
  LET copied(half) ==
        [p \in Range(LegendProps) |-> IF p = "encode" /\ half[p] # U THEN Def(id) ELSE half[p]]
      src == IF l.explicit["encode"] # U THEN l.explicit["encode"] ELSE l.implicit["encode"]
  IN [legend |-> LegendComponent(copied(l.explicit), copied(l.implicit)),
      heap |-> IF src # U THEN [heap EXCEPT ![id] = heap[Val(src)]] ELSE heap]

\* split.defaultTieBreaker
defaultTieBreaker(v1, v2) == v1

\* lines 381-387
mergeSymbolType(st1, st2) == IF st2.value = Def("circle") THEN st2 ELSE st1

\* common.mergeTitle and common.mergeTitleComponent
mergeTitle(title1, title2) ==
  IF title1 = title2 \/ title2 = U THEN title1
  ELSE IF title1 = U THEN title2
  ELSE Def(Val(title1) \o <<", ">> \o Val(title2))

mergeTitleComponent(v1, v2) == Explicit(v1.explicit, mergeTitle(v1.value, v2.value))

\* lines 353-365: the tie breaker handed to mergeValuesWithExplicit
tieBreaker(v1, v2, prop) ==
  IF prop = "symbolType" THEN mergeSymbolType(v1, v2)
  ELSE IF prop = "title" THEN mergeTitleComponent(v1, v2)
  ELSE IF prop = "type" THEN makeImplicit("symbol")
  ELSE defaultTieBreaker(v1, v2)

\* split.mergeValuesWithExplicit: the merged value, and whether the tie breaker ran
mergeValuesWithExplicit(v1, v2, prop) ==
  IF v1.value = U THEN [v |-> v2, tie |-> FALSE]
  ELSE IF v1.explicit /\ ~v2.explicit THEN [v |-> v1, tie |-> FALSE]
  ELSE IF v2.explicit /\ ~v1.explicit THEN [v |-> v2, tie |-> FALSE]
  ELSE IF v1.value = v2.value THEN [v |-> v1, tie |-> FALSE]
  ELSE [v |-> tieBreaker(v1, v2, prop), tie |-> TRUE]

\* lines 345-368: the loop over the properties
RECURSIVE mergeProps(_, _, _, _)
mergeProps(props, mergedLegend, childLegend, typeMerged) ==
  IF props = <<>> THEN [legend |-> mergedLegend, typeMerged |-> typeMerged]
  ELSE LET prop == Head(props)
           m == mergeValuesWithExplicit(getWithExplicit(mergedLegend, prop),
                                        getWithExplicit(childLegend, prop), prop)
       IN mergeProps(Tail(props), setWithExplicit(mergedLegend, prop, m.v), childLegend,
                     typeMerged \/ (prop = "type" /\ m.tie))

\* util.deleteNestedProperty(half, ['encode', 'gradient']) on one half of the
\* component: the entry is deleted from the encode object itself, and encode is
\* deleted from the half when the object is left empty
deleteGradient(l, heap, half) ==
  LET ref == l[half]["encode"] IN
  IF ref # U /\ "gradient" \in heap[Val(ref)] THEN
    LET rest == heap[Val(ref)] \ {"gradient"} IN
    [legend |-> IF rest = {} THEN [l EXCEPT ![half]["encode"] = U] ELSE l,
     heap |-> [heap EXCEPT ![Val(ref)] = rest]]
  ELSE [legend |-> l, heap |-> heap]

\* lines 369-376
stripGradientImplicitOnly(l, heap) == deleteGradient(l, heap, "implicit")

stripGradient(l, heap) ==
  LET i == deleteGradient(l, heap, "implicit")
  IN deleteGradient(i.legend, i.heap, "explicit")

\* lines 334-341
orientConflictNever(mergedLegend, childLegend) == FALSE

orientConflict(mergedLegend, childLegend) ==
  LET mergedOrient == getWithExplicit(mergedLegend, "orient")
      childOrient == getWithExplicit(childLegend, "orient")
  IN mergedOrient.explicit /\ childOrient.explicit /\ mergedOrient.value # childOrient.value

\* mergedLegend: U when undefined; the result is U when undefined is returned.
\* The component returned for a defined mergedLegend is mergedLegend itself.
mergeLegendComponent(mergedLegend, childLegend, heap, newId) ==
  IF mergedLegend = U THEN
    LET c == clone(childLegend, heap, newId) IN [result |-> Def(c.legend), heap |-> c.heap]
  ELSE IF orientConflict(Val(mergedLegend), childLegend) THEN
    [result |-> U, heap |-> heap]
  ELSE
    LET m == mergeProps(LegendProps, Val(mergedLegend), childLegend, FALSE)
        st == IF m.typeMerged THEN stripGradient(m.legend, heap)
              ELSE [legend |-> m.legend, heap |-> heap]
    IN [result |-> Def(st.legend), heap |-> st.heap]

\* the components handed in.  A component holds a property in one half at most.
EncodeParts == {{"gradient"}, {"symbols", "gradient"}, {"symbols"}}

OrientChoices == {Explicit(FALSE, U), Explicit(TRUE, Def("left")), Explicit(TRUE, Def("right")),
                  Explicit(FALSE, Def("left"))}
TypeChoices == {Explicit(FALSE, U), Explicit(FALSE, Def("gradient")), Explicit(FALSE, Def("symbol")),
                Explicit(TRUE, Def("gradient")), Explicit(TRUE, Def("symbol"))}
EncodeChoices == {[explicit |-> FALSE, parts |-> {}], [explicit |-> FALSE, parts |-> {"gradient"}],
                  [explicit |-> TRUE, parts |-> {"symbols", "gradient"}],
                  [explicit |-> FALSE, parts |-> {"symbols"}]}
OtherChoices ==
  { [title |-> Explicit(FALSE, U), symbolType |-> Explicit(FALSE, U), format |-> Explicit(FALSE, U)],
    [title |-> Explicit(FALSE, Def(<<"A">>)), symbolType |-> Explicit(FALSE, Def("circle")),
     format |-> Explicit(TRUE, Def("d"))],
    [title |-> Explicit(FALSE, Def(<<"B">>)), symbolType |-> Explicit(FALSE, Def("square")),
     format |-> Explicit(TRUE, Def("f"))] }

\* the component with the given properties, its encode object at id
MakeLegend(orient, type, encode, other, id) ==
  LET vals == [p \in Range(LegendProps) |->
                 IF p = "orient" THEN orient
                 ELSE IF p = "type" THEN type
                 ELSE IF p = "encode"
                      THEN Explicit(encode.explicit, IF encode.parts = {} THEN U ELSE Def(id))
                 ELSE other[p]]
  IN LegendComponent([p \in Range(LegendProps) |-> IF vals[p].explicit THEN vals[p].value ELSE U],
                     [p \in Range(LegendProps) |-> IF vals[p].explicit THEN U ELSE vals[p].value])

HeapIds == 0..2

InitMerge ==
  /\ IdlePred /\ IdleView /\ IdleLe /\ IdleData /\ IdleTop /\ IdleSd /\ IdleNonUnit /\ IdleSig /\ IdleBind
  /\ \E o1 \in OrientChoices, t1 \in TypeChoices, e1 \in EncodeChoices, x1 \in OtherChoices,
        o2 \in OrientChoices, t2 \in TypeChoices, e2 \in EncodeChoices, x2 \in OtherChoices,
        defined \in BOOLEAN :
       /\ mMerged = IF defined THEN Def(MakeLegend(o1, t1, e1, x1, 1)) ELSE U
       /\ mChild = MakeLegend(o2, t2, e2, x2, 2)
       /\ mHeap = [i \in HeapIds |-> IF i = 1 /\ defined THEN e1.parts
                                     ELSE IF i = 2 THEN e2.parts ELSE {}]
  /\ mMerged0 = mMerged
  /\ mHeap0 = mHeap
  /\ mResult = U
  /\ mDone = FALSE

\* one call; mMerged is the object mergedLegend refers to, as the call leaves it
MergeLegendComponent ==
  /\ ~mDone
  /\ LET r == mergeLegendComponent(mMerged, mChild, mHeap, 0)
     IN /\ mResult' = r.result
        /\ mHeap' = r.heap
        /\ mMerged' = IF mMerged # U /\ r.result # U THEN r.result ELSE mMerged
  /\ mDone' = TRUE
  /\ UNCHANGED <<mChild, mMerged0, mHeap0, predVars, viewVars, leVars, dataVars, topVars, sdVars, nonUnitVars, sigVars, bindVars>>

NextMerge == MergeLegendComponent

SpecMerge == InitMerge /\ [][NextMerge]_vars

\* the value a component has for a property and whether it is explicit
ValueOf(l, p) == IF l.explicit[p] # U THEN l.explicit[p] ELSE l.implicit[p]
IsExplicit(l, p) == l.explicit[p] # U

\* C5: when both components carry an explicit orient and the two differ, undefined
\* is returned and neither component (nor an encode object of either) has changed.
C5_OrientConflictUndefined ==
  (mDone /\ mMerged0 # U
     /\ IsExplicit(Val(mMerged0), "orient") /\ IsExplicit(mChild, "orient")
     /\ ValueOf(Val(mMerged0), "orient") # ValueOf(mChild, "orient"))
  => (mResult = U /\ mMerged = mMerged0 /\ mHeap = mHeap0)

\* explicit 'left' has met explicit 'right', the parent carrying further properties
C5_Witness ==
  /\ mDone /\ mMerged0 # U
  /\ Val(mMerged0).explicit["orient"] = Def("left") /\ mChild.explicit["orient"] = Def("right")
  /\ Val(mMerged0).implicit["type"] = Def("gradient") /\ mChild.implicit["type"] = Def("symbol")
  /\ mChild.explicit["encode"] # U
  /\ mResult = U

\* a merge of two implicit, different types took place
ImplicitTypesDiffer ==
  /\ mMerged0 # U
  /\ ~orientConflict(Val(mMerged0), mChild)
  /\ Val(mMerged0).implicit["type"] # U /\ mChild.implicit["type"] # U
  /\ Val(mMerged0).implicit["type"] # mChild.implicit["type"]

\* C6: merging an implicit 'gradient' with an implicit 'symbol' type gives type
\* 'symbol', not explicit, and neither half of the merged component has an
\* encode.gradient entry afterwards, whichever side supplied the gradient block.
C6_TypeMergeStripsGradient ==
  (mDone /\ ImplicitTypesDiffer) =>
    /\ mResult # U
    /\ Val(mResult).implicit["type"] = Def("symbol")
    /\ Val(mResult).explicit["type"] = U
    /\ \A half \in {"implicit", "explicit"} :
          Val(mResult)[half]["encode"] # U =>
            "gradient" \notin mHeap[Val(Val(mResult)[half]["encode"])]

\* the child supplied an explicit encode block with a gradient entry, which the merged
\* component took over and lost the gradient entry of
C6_Witness ==
  /\ mDone /\ ImplicitTypesDiffer
  /\ mChild.explicit["encode"] # U
  /\ "gradient" \in mHeap0[Val(mChild.explicit["encode"])]
  /\ Val(mMerged0).implicit["encode"] # U
  /\ mResult # U
  /\ Val(mResult).explicit["encode"] = mChild.explicit["encode"]

----------------------------------------------------------------------------
(* parseNonUnitLegend, for one channel of a composite view *)

MaxChildren == 3

\* resolve.parseGuideResolve(resolve, channel) for a legend channel
parseGuideResolve(scaleResolve, legendResolve) ==
  IF scaleResolve = "independent" THEN "independent"
  ELSE IF legendResolve # U THEN Val(legendResolve) ELSE "shared"

\* the legends parseLegend(child) produces for the channel: a component with these
\* properties, whose encode object is the child's own
ChildOrients == {Explicit(FALSE, U), Explicit(TRUE, Def("left")), Explicit(TRUE, Def("right"))}
ChildTypes == {Explicit(FALSE, U), Explicit(FALSE, Def("gradient")), Explicit(FALSE, Def("symbol"))}
ChildEncodes == {[explicit |-> FALSE, parts |-> {}], [explicit |-> FALSE, parts |-> {"gradient"}],
                 [explicit |-> FALSE, parts |-> {"symbols"}]}
ChildOther ==
  [title |-> Explicit(FALSE, U), symbolType |-> Explicit(FALSE, U), format |-> Explicit(FALSE, U)]

\* the encode object a component produced for child i refers to
ChildEncode(l) ==
  IF l = U THEN U
  ELSE IF Val(l).explicit["encode"] # U THEN Val(l).explicit["encode"]
  ELSE Val(l).implicit["encode"]

InitNonUnit ==
  /\ IdlePred /\ IdleView /\ IdleLe /\ IdleData /\ IdleTop /\ IdleSd /\ IdleMerge /\ IdleSig /\ IdleBind
  /\ nCount \in 1..MaxChildren
  /\ nNext = 1
  /\ nLegend = U
  /\ nResolve \in {U, Def("shared"), Def("independent")}
  /\ nScale \in {"shared", "independent"}
  /\ nChildren = <<>>
  /\ nProduced = <<>>
  /\ nHeap = [i \in 0..MaxChildren |-> {}]
  /\ nHeap0 = nHeap
  /\ nConflict = 0
  /\ nDone = FALSE

\* lines 292-312, one iteration: parseLegend(child), then the resolve and the merge
\* of the channel's legend if the child produced one
ParseChild ==
  /\ ~nDone /\ nNext <= nCount
  /\ \/ \* the child has no legend for the channel
        /\ nChildren' = Append(nChildren, U)
        /\ nProduced' = Append(nProduced, U)
        /\ UNCHANGED <<nLegend, nResolve, nHeap, nHeap0, nConflict>>
     \/ \E o \in ChildOrients, t \in ChildTypes, e \in ChildEncodes :
          LET l == MakeLegend(o, t, e, ChildOther, nNext)
              heap == [nHeap EXCEPT ![nNext] = e.parts]
              res == parseGuideResolve(nScale, nResolve)
              m == mergeLegendComponent(nLegend, l, heap, 0)
          IN /\ nProduced' = Append(nProduced, Def(l))
             /\ nChildren' = Append(nChildren, Def(l))
             /\ nHeap0' = [nHeap0 EXCEPT ![nNext] = e.parts]
             /\ IF res = "shared" THEN
                  /\ nLegend' = m.result
                  /\ nHeap' = m.heap
                  /\ nResolve' = IF m.result = U THEN Def("independent") ELSE Def(res)
                  /\ nConflict' = IF m.result = U /\ nConflict = 0 THEN nNext ELSE nConflict
                ELSE
                  /\ nResolve' = Def(res)
                  /\ nHeap' = heap
                  /\ UNCHANGED <<nLegend, nConflict>>
  /\ nNext' = nNext + 1
  /\ UNCHANGED <<nCount, nScale, nDone, predVars, viewVars, leVars, dataVars, topVars, sdVars,
                 mergeVars, sigVars, bindVars>>

\* lines 314-327: the shared legends are removed from the children, and the view's
\* legends are returned
FinishParse ==
  /\ ~nDone /\ nNext = nCount + 1
  /\ nChildren' = IF nLegend # U /\ nResolve = Def("shared")
                  THEN [i \in 1..Len(nChildren) |-> U]
                  ELSE nChildren
  /\ nDone' = TRUE
  /\ UNCHANGED <<nCount, nNext, nLegend, nResolve, nScale, nProduced, nHeap, nHeap0, nConflict,
                 predVars, viewVars, leVars, dataVars, topVars, sdVars, mergeVars, sigVars, bindVars>>

NextNonUnit == ParseChild \/ FinishParse

SpecNonUnit == InitNonUnit /\ [][NextNonUnit]_vars

Producers == {i \in 1..Len(nProduced) : nProduced[i] # U}

SharedOutcome ==
  /\ nResolve = Def("shared") /\ nLegend # U
  /\ \A i \in 1..Len(nChildren) : nChildren[i] = U

\* every child that produced a legend still has it, encode object included
ChildrenUnmodified ==
  \A i \in Producers :
    /\ nChildren[i] = nProduced[i]
    /\ ChildEncode(nProduced[i]) # U => nHeap[i] = nHeap0[i]

IndependentOutcome ==
  /\ nResolve = Def("independent") /\ nLegend = U
  /\ ChildrenUnmodified

\* C10: after parseNonUnitLegend, if some child produced a legend for the channel,
\* either the channel is shared, the view has the legend and no child has one, or it
\* is independent, the view has none and every child that produced one still has its
\* own, unmodified; and after an explicit-orient conflict the channel is independent.
C10_SharedOrIndependent ==
  (nDone /\ Producers # {}) =>
    /\ SharedOutcome \/ IndependentOutcome
    /\ ~(SharedOutcome /\ IndependentOutcome)
    /\ nConflict # 0 => (nResolve = Def("independent") /\ nLegend = U)

\* the same, without the claim that the encode objects of the children are untouched
C10_UpToEncodeObjects ==
  (nDone /\ Producers # {}) =>
    /\ \/ SharedOutcome
       \/ /\ nResolve = Def("independent") /\ nLegend = U
          /\ \A i \in Producers : nChildren[i] = nProduced[i]
    /\ nConflict # 0 => (nResolve = Def("independent") /\ nLegend = U)

----------------------------------------------------------------------------
(* assembleUnitSelectionSignals and assembleInteractiveLegendSignals *)

TUPLE_FIELDS == <<"_tuple_fields">>
TOGGLE == <<"_toggle">>

\* selection.unitName(model) of a unit view outside a facet
ModelName == <<"view_1">>
unitName == stringValue(ModelName)

Rule(events, update) == [events |-> events, update |-> update]

\* the signals of the point selection types (single, multi): the tuple signal
selCompilerSignals(selCmpt) ==
  <<Signal(selCmpt.name \o TUPLE, <<>>,
           <<Rule(<<"click">>,
                  <<"datum && item().mark.marktype !== 'group' ? {unit: ">> \o unitName
                    \o <<", fields: ">> \o selCmpt.name \o TUPLE_FIELDS
                    \o <<", values: [(item().isVoronoi ? datum.datum : datum)[...]]} : null">>)>>)>>

selCompilerModifyExpr(selCmpt) ==
  selCmpt.name \o TUPLE \o <<", ">>
    \o (IF selCmpt.resolve = "global" THEN <<"null">> ELSE <<"{unit: ">> \o unitName \o <<"}">>)

\* the project transform: the tuple_fields signal, unless present
projectSignals(selCmpt, signals) ==
  IF Len(SignalsNamed(signals, selCmpt.name \o TUPLE_FIELDS)) > 0 THEN signals
  ELSE Append(signals, Signal(selCmpt.name \o TUPLE_FIELDS, <<>>, <<>>))

\* the toggle transform, of the selections it applies to
toggleSignals(selCmpt, signals) ==
  Append(signals, Signal(selCmpt.name \o TOGGLE, <<>>, <<Rule(<<"click">>, <<"event.shiftKey">>)>>))

toggleModifyExpr(selCmpt) ==
  LET tpl == selCmpt.name \o TUPLE
      signal == selCmpt.name \o TOGGLE
  IN signal \o <<" ? null : ">> \o tpl \o <<", ">>
       \o signal \o <<" ? null : ">>
       \o (IF selCmpt.resolve = "global" THEN <<"true">> ELSE <<"{unit: ">> \o unitName \o <<"}">>)
       \o <<", ">> \o signal \o <<" ? ">> \o tpl \o <<" : null">>

\* lines 33-52: the loop over the selections
RECURSIVE unitSignalsLoop(_, _)
unitSignalsLoop(selCmpts, signals) ==
  IF selCmpts = <<>> THEN signals
  ELSE LET selCmpt == Head(forEachSelection(selCmpts))
           own == signals \o selCompilerSignals(selCmpt)
           projected == projectSignals(selCmpt, own)
           toggled == IF selCmpt.toggle THEN toggleSignals(selCmpt, projected) ELSE projected
           modifyExpr == IF selCmpt.toggle THEN toggleModifyExpr(selCmpt)
                         ELSE selCompilerModifyExpr(selCmpt)
       IN unitSignalsLoop(Tail(selCmpts),
            Append(toggled,
                   Signal(selCmpt.name \o MODIFY,
                          <<"modify(">> \o stringValue(selCmpt.name \o STORE) \o <<", ">>
                            \o modifyExpr \o <<")">>,
                          <<>>)))

\* lines 75-77: the reduce puts each field's test in front of the tests so far
RECURSIVE ignoreLegendExpression(_)
ignoreLegendExpression(selectionFields) ==
  IF selectionFields = <<>> THEN <<>>
  ELSE LET field == selectionFields[Len(selectionFields)] IN
       <<"item().mark.name !== 'symbols_", field>> \o LEGEND
         \o <<"' && item().mark.name !== 'labels_", field>> \o LEGEND \o <<"'", " && ">>
         \o ignoreLegendExpression(SubSeq(selectionFields, 1, Len(selectionFields) - 1))

\* ignoreLegendExpression.slice(0, -4): without the trailing ' && '
sliced(e) == IF e = <<>> THEN <<>> ELSE SubSeq(e, 1, Len(e) - 1)

\* lines 81-83
RECURSIVE eventExpression(_)
eventExpression(fields) ==
  IF fields = <<>> THEN <<>>
  ELSE LET field == fields[Len(fields)] IN
       <<"@symbols_", field>> \o LEGEND \o <<":click, @labels_", field>> \o LEGEND \o <<":click, ">>
         \o eventExpression(SubSeq(fields, 1, Len(fields) - 1))

FieldSignalName(name, field) == name \o <<"_", field, "_legend">>

\* lines 87-103: the latch signal of one field of a multi-field selection
FieldSignal(name, field, ignore) ==
  Signal(FieldSignalName(name, field), <<>>,
         <<Rule(<<"scope:click">>,
                ignore \o <<" item().mark.marktype !== 'group' ? ",
                            "(item().isVoronoi ? datum.datum : datum)", "['", field, "']", " : (!(">>
                  \o sliced(ignore) \o <<") ? ">> \o FieldSignalName(name, field) \o <<" : null)">>),
           Rule(<<"@symbols_", field>> \o LEGEND \o <<":click, @labels_", field>> \o LEGEND
                  \o <<":click">>,
                <<"datum.value">>)>>)

FirstNamed(signals, n) ==
  IF \E i \in 1..Len(signals) : signals[i].name = n
  THEN CHOOSE i \in 1..Len(signals) :
         signals[i].name = n /\ \A j \in 1..(i - 1) : signals[j].name # n
  ELSE 0

\* lines 116-119
singleFieldRule(selection) ==
  Rule(eventExpression(selection.fields),
       <<"{unit: ">> \o unitName \o <<", fields: ">> \o selection.name \o <<"_tuple_fields">>
         \o <<", values: [datum.value]}">>)

\* lines 106-111
multiFieldRule(selection) ==
  LET fieldSignals == [i \in 1..Len(selection.fields) |->
                         FieldSignalName(selection.name, selection.fields[i])]
  IN Rule(eventExpression(selection.fields),
          Join(fieldSignals, <<" && ">>) \o <<" ? {unit: ">> \o unitName \o <<", fields: ">>
            \o selection.name \o <<"_tuple_fields">> \o <<", values: [ ">>
            \o Join(fieldSignals, <<",">>) \o <<" ]} : ">> \o selection.name \o TUPLE)

\* the handler rule pushed for a selection with other than one field, were it pushed
\* for a single field as well
legendRuleAlwaysMulti(selection) == multiFieldRule(selection)

\* lines 85-120: the rule pushed on the tuple signal
legendRule(selection) ==
  IF Len(selection.fields) # 1 THEN multiFieldRule(selection) ELSE singleFieldRule(selection)

\* lines 71-121, one iteration; a read of a property of undefined throws
interactiveStep(selection, selectionFields, signals) ==
  LET name == selection.name
      at == FirstNamed(signals, name \o TUPLE)
      ignore == ignoreLegendExpression(selectionFields)
  IN IF at = 0 \/ (at # 0 /\ Len(signals[at].on) = 0) THEN [signals |-> signals, threw |-> TRUE]
     ELSE
       LET guarded == [signals EXCEPT ![at].on[1].update = ignore \o @]
       IN IF Len(selection.fields) # 1 THEN
            LET n == Len(selection.fields)
                latches == [i \in 1..n |->
                              FieldSignal(name, selection.fields[n + 1 - i], ignore)]
                unshifted == latches \o guarded
                pushed == [unshifted EXCEPT ![at + n].on = Append(@, legendRule(selection))]
                tog == FirstNamed(pushed, name \o TOGGLE)
            IN IF tog = 0 \/ (tog # 0 /\ Len(pushed[tog].on) = 0)
               THEN [signals |-> pushed, threw |-> TRUE]
               ELSE [signals |-> [pushed EXCEPT ![tog].on[1].update =
                                    sliced(ignore) \o <<" ? event.shiftKey : false">>],
                     threw |-> FALSE]
          ELSE [signals |-> [guarded EXCEPT ![at].on = Append(@, legendRule(selection))],
                threw |-> FALSE]

RECURSIVE interactiveLoop(_, _, _)
interactiveLoop(selections, selectionFields, signals) ==
  IF selections = <<>> THEN [signals |-> signals, threw |-> FALSE]
  ELSE LET r == interactiveStep(Head(selections), selectionFields, signals)
       IN IF r.threw THEN r ELSE interactiveLoop(Tail(selections), selectionFields, r.signals)

\* lines 62-124
assembleInteractiveLegendSignals(signals, selections) ==
  interactiveLoop(selections,
                  UniqueElems(Concat([i \in 1..Len(selections) |-> selections[i].fields])),
                  signals)

\* lines 32-60
assembleUnitSelectionSignals(parent, selCmpts, encoding, signals) ==
  LET base == unitSignalsLoop(selCmpts, signals)
      selections == interactiveLegendExists(parent, selCmpts, encoding)
  IN IF Len(selections) > 0
     THEN [base |-> base] @@ assembleInteractiveLegendSignals(base, selections)
     ELSE [base |-> base, signals |-> base, threw |-> FALSE]

\* the selections of the unit view: projected fields or none, with or without the
\* toggle transform; the legend channel encodings the view may have
SignalSelections ==
  UNION { {[i \in 1..n |-> SelectionComponent(SelName(i), fs[i], "global", tg[i])] :
             fs \in [1..n -> {U, Def(<<"a">>), Def(<<"b">>), Def(<<"a", "b">>)}],
             tg \in [1..n -> BOOLEAN]} : n \in 0..MaxSel }

SignalEncodings ==
  { e \in ViewEncodings :
      /\ e["color"] \in {U, Def(FieldDef("a", FALSE, FALSE, FALSE)), Def(FieldDef("a", TRUE, FALSE, FALSE))}
      /\ e["size"] \in {U, Def(FieldDef("b", FALSE, FALSE, FALSE))}
      /\ e["opacity"] = U /\ e["shape"] = U }

InitSignals ==
  /\ IdlePred /\ IdleLe /\ IdleData /\ IdleTop /\ IdleSd /\ IdleMerge /\ IdleNonUnit /\ IdleBind
  /\ vParent \in BOOLEAN
  /\ vSelections \in SignalSelections
  /\ vEncoding \in SignalEncodings
  /\ sIn \in {<<>>, <<Signal(<<"width">>, <<"200">>, <<>>)>>}
  /\ sBase = <<>>
  /\ sSignals = <<>>
  /\ sDone = "no"

AssembleUnitSelectionSignals ==
  /\ sDone = "no"
  /\ LET r == assembleUnitSelectionSignals(vParent, vSelections, vEncoding, sIn)
     IN /\ sBase' = r.base
        /\ sSignals' = r.signals
        /\ sDone' = IF r.threw THEN "threw" ELSE "returned"
  /\ UNCHANGED <<sIn, predVars, viewVars, leVars, dataVars, topVars, sdVars, mergeVars, nonUnitVars,
                 bindVars>>

NextSignals == AssembleUnitSelectionSignals

SpecSignals == InitSignals /\ [][NextSignals]_vars

\* the interactive selections of the view: the field-projecting selections of a root
\* view whose projected fields are all encoded
Encoded == {Val(vEncoding[c]).field : c \in {ch \in Range(LegendChannels) :
              /\ vEncoding[ch] # U
              /\ ~Val(vEncoding[ch]).bin /\ ~Val(vEncoding[ch]).aggregate
              /\ ~Val(vEncoding[ch]).timeUnit}}

IsInteractiveView ==
  /\ ~vParent
  /\ \E i \in 1..Len(vSelections) : vSelections[i].fields # U
  /\ \A i \in 1..Len(vSelections) :
        vSelections[i].fields # U => Range(Val(vSelections[i].fields)) \subseteq Encoded

SingleFieldInteractive ==
  {i \in 1..Len(vSelections) :
     IsInteractiveView /\ vSelections[i].fields # U /\ Len(Val(vSelections[i].fields)) = 1}

TheSignal(signals, n) == signals[CHOOSE i \in 1..Len(signals) : signals[i].name = n]

IsSuffix(t, u) == Len(t) <= Len(u) /\ SubSeq(u, Len(u) - Len(t) + 1, Len(u)) = t

\* the tuple signal of the single-field selection of list index i has exactly one more
\* rule than before, the last, with the legend click events and the datum.value update;
\* the rules it had are kept in order; no signal <name>_f_legend is in the list
SingleFieldRuleDelivered(i) ==
  LET name == vSelections[i].name
      f == Val(vSelections[i].fields)[1]
      before == TheSignal(sBase, name \o <<"_tuple">>)
      after == TheSignal(sSignals, name \o <<"_tuple">>)
  IN /\ Cardinality({k \in 1..Len(sSignals) : sSignals[k].name = name \o <<"_tuple">>}) = 1
     /\ Len(after.on) = Len(before.on) + 1
     /\ after.on[Len(after.on)].update =
          <<"{unit: ", "\"", "view_1", "\"", ", fields: ">> \o name
            \o <<"_tuple_fields", ", values: [datum.value]}">>
     /\ after.on[Len(after.on)].events =
          <<"@symbols_", f, "_legend", ":click, @labels_", f, "_legend", ":click, ">>
     /\ \A k \in 1..Len(before.on) :
          /\ after.on[k].events = before.on[k].events
          /\ IsSuffix(before.on[k].update, after.on[k].update)
     /\ \A k \in 1..Len(sSignals) : sSignals[k].name # name \o <<"_", f, "_legend">>

\* C7: for every interactive selection with exactly one projected field f,
\* assembleUnitSelectionSignals returns a list in which the tuple signal has exactly one
\* more rule than before, the last, with events on @symbols_f_legend:click and
\* @labels_f_legend:click and the update
\* {unit: <unitName>, fields: <name>_tuple_fields, values: [datum.value]}; the rules
\* it had are kept in order; and no signal <name>_f_legend is in the list.
C7_SingleFieldLegendRule ==
  sDone # "no" =>
    \A i \in SingleFieldInteractive : sDone = "returned" /\ SingleFieldRuleDelivered(i)

\* the same for the calls of assembleUnitSelectionSignals that return
C7_WhenReturned ==
  sDone = "returned" => \A i \in SingleFieldInteractive : SingleFieldRuleDelivered(i)

\* a view with a single-field and a multi-field interactive selection was assembled
C7_Witness ==
  /\ sDone = "returned"
  /\ SingleFieldInteractive # {}
  /\ \E j \in 1..Len(vSelections) :
        vSelections[j].fields # U /\ Len(Val(vSelections[j].fields)) = 2
  /\ Len(sSignals) > Len(sBase)

----------------------------------------------------------------------------
(* parseLegendForChannel and updateInteractiveLegendComponent *)

VL_SELECTION_TEST == <<"vlSelectionTest">>

\* a value of an encode entry: {value: v}, or [{test, value: v}, {value: w}]
PlainValue(v) == [test |-> <<>>, value |-> v, otherwise |-> ""]
TestedValue(test, v, w) == [test |-> test, value |-> v, otherwise |-> w]

UpdateValue(opacity, stroke) == [opacity |-> opacity, stroke |-> stroke]

\* a part of a legend encode block
EncodePart(name, interactive, update) ==
  [name |-> name, interactive |-> interactive, update |-> update]

LegendEncode(labels, symbols, title) == [labels |-> labels, symbols |-> symbols, title |-> title]

\* the channels parseUnitLegend may parse a legend for: the four of the interactive
\* legend and fill, standing for the others
ParsedChannels == {"color", "opacity", "size", "shape", "fill"}

\* lines 185-192, were the comparison not strict
RECURSIVE selectionIndexLastWins(_, _, _, _, _)
selectionIndexLastWins(interactiveSelections, field, i, maxFields, selectionIndex) ==
  IF i > Len(interactiveSelections) THEN [maxFields |-> maxFields, selectionIndex |-> selectionIndex]
  ELSE LET s == interactiveSelections[i] IN
       IF Len(s.fields) >= maxFields /\ IndexOf(s.fields, field) > 0
       THEN selectionIndexLastWins(interactiveSelections, field, i + 1, Len(s.fields), i)
       ELSE selectionIndexLastWins(interactiveSelections, field, i + 1, maxFields, selectionIndex)

\* lines 185-192: the forEach over the interactive selections, from index i on
RECURSIVE selectionIndexFrom(_, _, _, _, _)
selectionIndexFrom(interactiveSelections, field, i, maxFields, selectionIndex) ==
  IF i > Len(interactiveSelections) THEN [maxFields |-> maxFields, selectionIndex |-> selectionIndex]
  ELSE LET s == interactiveSelections[i] IN
       IF Len(s.fields) > maxFields /\ IndexOf(s.fields, field) > 0
       THEN selectionIndexFrom(interactiveSelections, field, i + 1, Len(s.fields), i)
       ELSE selectionIndexFrom(interactiveSelections, field, i + 1, maxFields, selectionIndex)

\* lines 207-212
legendTest(maxProjSelection, field) ==
  IF Len(maxProjSelection.fields) > 1
  THEN <<"!">> \o FieldSignalName(maxProjSelection.name, field) \o <<" || datum.value === ">>
         \o FieldSignalName(maxProjSelection.name, field)
  ELSE <<"!(length(data(">> \o maxProjSelection.store \o <<"))) || ">> \o VL_SELECTION_TEST
         \o <<"(">> \o maxProjSelection.store \o <<", {", field, ": datum.value})">>

\* lines 200-228, for one part
updatePart(legendEncode, part, channel, maxProjSelection, field) ==
  LET updateValue == IF legendEncode[part] # U THEN Val(legendEncode[part]).update
                     ELSE UpdateValue(Def(PlainValue("0.7")), U)
      test == legendTest(maxProjSelection, field)
      updated ==
        IF part = "symbols" /\ channel = "opacity"
        THEN LET strokeValue == IF updateValue.stroke # U THEN Val(updateValue.stroke).value
                                ELSE "#000000"
             IN [updateValue EXCEPT !.stroke = Def(TestedValue(test, strokeValue, "#aaaaaa"))]
        ELSE LET opacityValue == IF updateValue.opacity # U THEN Val(updateValue.opacity).value
                                 ELSE "0.7"
             IN [updateValue EXCEPT !.opacity = Def(TestedValue(test, opacityValue, "0.2"))]
  IN [legendEncode EXCEPT ![part] = Def(EncodePart(<<part, "_", field>> \o LEGEND, TRUE, updated))]

\* lines 167-230
updateInteractiveLegendComponent(encoding, legendEncode, channel, interactiveSelections) ==
  IF channel \notin {"color", "opacity", "size", "shape"} THEN legendEncode
  ELSE LET field == Val(encoding[channel]).field
           chosen == selectionIndexFrom(interactiveSelections, field, 1, 0, 0)
       IN IF chosen.maxFields = 0 THEN legendEncode
          ELSE LET maxProjSelection == interactiveSelections[chosen.selectionIndex]
               IN updatePart(updatePart(legendEncode, "labels", channel, maxProjSelection, field),
                             "symbols", channel, maxProjSelection, field)

\* lines 116-119 of parseLegendForChannel
parseLegendForChannel(parent, selCmpts, encoding, channel, legendEncode) ==
  LET interactiveSelections == interactiveLegendExists(parent, selCmpts, encoding)
  IN IF Len(interactiveSelections) > 0
     THEN updateInteractiveLegendComponent(encoding, legendEncode, channel, interactiveSelections)
     ELSE legendEncode

\* the encode blocks lines 102-114 may give
LegendEncodeInputs ==
  { LegendEncode(U, U, U),
    LegendEncode(Def(EncodePart(<<>>, FALSE, UpdateValue(Def(PlainValue("1")), U))), U, U),
    LegendEncode(U, Def(EncodePart(<<>>, FALSE, UpdateValue(U, Def(PlainValue("red"))))),
                 Def(EncodePart(<<>>, FALSE, UpdateValue(U, U)))),
    LegendEncode(Def(EncodePart(<<>>, FALSE, UpdateValue(U, U))),
                 Def(EncodePart(<<>>, FALSE, UpdateValue(Def(PlainValue("0.5")), U))), U) }

InitBind ==
  /\ IdlePred /\ IdleLe /\ IdleData /\ IdleTop /\ IdleSd /\ IdleMerge /\ IdleNonUnit
  /\ vParent \in BOOLEAN
  /\ vSelections \in SignalSelections
  /\ vEncoding \in SignalEncodings
  /\ sIn = <<>>
  /\ sBase = <<>>
  /\ sSignals = <<>>
  /\ sDone = "no"
  /\ lChannel \in {c \in ParsedChannels : c = "fill" \/ vEncoding[c] # U}
  /\ lIn \in {Def(e) : e \in LegendEncodeInputs}
  /\ lEncode = U

ParseLegendForChannel ==
  /\ lEncode = U
  /\ lEncode' = Def(parseLegendForChannel(vParent, vSelections, vEncoding, lChannel, Val(lIn)))
  /\ UNCHANGED <<lChannel, lIn, predVars, viewVars, leVars, dataVars, topVars, sdVars, mergeVars,
                 nonUnitVars, sigVars>>

NextBind == ParseLegendForChannel \/ AssembleUnitSelectionSignals

SpecBind == InitBind /\ [][NextBind]_vars

\* the interactive selections of the view that project the field f, by list index
Including(f) ==
  {i \in 1..Len(vSelections) :
     IsInteractiveView /\ vSelections[i].fields # U /\ f \in Range(Val(vSelections[i].fields))}

\* the one with the most projected fields, the earliest in the list on a tie
MostSpecific(f) ==
  CHOOSE i \in Including(f) :
    \A j \in Including(f) :
      \/ Len(Val(vSelections[j].fields)) < Len(Val(vSelections[i].fields))
      \/ Len(Val(vSelections[j].fields)) = Len(Val(vSelections[i].fields)) /\ i <= j

IsBindChannel == lChannel \in {"color", "opacity", "size", "shape"}

ChannelField == Val(vEncoding[lChannel]).field

\* the test the legend parts carry when bound to the selection of list index i
TestOf(i, f) ==
  LET name == vSelections[i].name IN
  IF Len(Val(vSelections[i].fields)) > 1
  THEN <<"!">> \o name \o <<"_", f, "_legend", " || datum.value === ">>
         \o name \o <<"_", f, "_legend">>
  ELSE <<"!(length(data(", "\"">> \o name \o <<"_store", "\"", "))) || ", "vlSelectionTest", "(",
         "\"">> \o name \o <<"_store", "\"", ", {", f, ": datum.value})">>

PartTest(part) ==
  LET u == Val(Val(lEncode)[part]).update IN
  IF part = "symbols" /\ lChannel = "opacity" THEN Val(u.stroke).test ELSE Val(u.opacity).test

\* C11: the rewritten encode block of a color, opacity, size or shape channel with field
\* f carries the test of the interactive selection that has the most projected fields
\* among those projecting f, the earliest in the list on a tie; with no interactive
\* selection projecting f, or on another channel, the block is returned unchanged.
C11_MostSpecificSelection ==
  lEncode # U =>
    IF IsBindChannel /\ Including(ChannelField) # {}
    THEN \A part \in {"labels", "symbols"} :
           /\ Val(lEncode)[part] # U
           /\ Val(Val(lEncode)[part]).interactive
           /\ PartTest(part) = TestOf(MostSpecific(ChannelField), ChannelField)
    ELSE Val(lEncode) = Val(lIn)

\* a legend was bound where two interactive selections of different size project its field
C11_Witness ==
  /\ lEncode # U /\ IsBindChannel
  /\ \E i, j \in Including(ChannelField) :
        i < j /\ Len(Val(vSelections[i].fields)) < Len(Val(vSelections[j].fields))
  /\ Val(lEncode) # Val(lIn)

----------------------------------------------------------------------------
(* the time unit nodes assembleSelectionPredicate inserts *)

\* the number of time unit nodes of the selection vname above the insertion point
TimeUnitNodesOf(vname) ==
  Cardinality({i \in 1..Len(pChain) : pChain[i] = [kind |-> "timeunit", of |-> vname]})

\* the number of leaves of the tree that name the selection vname
ReferencesTo(vname) ==
  Cardinality({i \in 1..Len(LeavesOf(pTree)) : varName(LeavesOf(pTree)[i]) = vname})

\* C12: after any number of assembleSelectionPredicate calls against the same insertion
\* point, the pipeline holds exactly one time unit node of each referenced selection
\* that carries a time unit, and none of a selection without one.
C12_TimeUnitNodeOnce ==
  pCalls > 0 =>
    \A vname \in DOMAIN pSel :
      TimeUnitNodesOf(vname) =
        IF pSel[vname].timeUnit /\ ReferencesTo(vname) > 0 THEN 1 ELSE 0

\* every reference inserts a node of its own: one per leaf and per call
C12_NodePerReference ==
  \A vname \in DOMAIN pSel :
    TimeUnitNodesOf(vname) =
      IF pSel[vname].timeUnit THEN pCalls * ReferencesTo(vname) ELSE 0

----------------------------------------------------------------------------
(* the signal names of the legend encode block and of the assembled signals *)

\* the names <selection>_<field>_legend over the selections and projected fields of the view
LatchNames ==
  UNION { {vSelections[i].name \o <<"_", f, "_legend">> : f \in Range(Val(vSelections[i].fields))} :
            i \in {j \in 1..Len(vSelections) : vSelections[j].fields # U} }

\* the tests of the labels and symbols parts of the parsed encode block
EncodeTests ==
  UNION { LET p == Val(lEncode)[part] IN
          IF p = U THEN {}
          ELSE {Val(v).test : v \in {Val(p).update.opacity, Val(p).update.stroke} \ {U}} \ {<<>>} :
          part \in {"labels", "symbols"} }

RefersTo(test, latch) == test = <<"!">> \o latch \o <<" || datum.value === ">> \o latch

ReferredLatches == {n \in LatchNames : \E t \in EncodeTests : RefersTo(t, n)}

DefinitionsOf(n) == Cardinality({k \in 1..Len(sSignals) : sSignals[k].name = n})

BoundToSingleField ==
  /\ IsBindChannel /\ Including(ChannelField) # {}
  /\ Len(Val(vSelections[MostSpecific(ChannelField)].fields)) = 1

\* C13: once the legend of a channel is parsed and the signals of the same root view are
\* assembled, every latch signal <selection>_<field>_legend a test of the encode block
\* refers to is defined exactly once in the signal list returned, and a legend bound to
\* a single-field selection refers to no latch signal.
C13_LegendSignalsDefined ==
  (lEncode # U /\ sDone # "no") =>
    /\ \A n \in ReferredLatches : sDone = "returned" /\ DefinitionsOf(n) = 1
    /\ BoundToSingleField => ReferredLatches = {}

\* the same for the calls of assembleUnitSelectionSignals that return
C13_WhenReturned ==
  (lEncode # U /\ sDone = "returned") =>
    /\ \A n \in ReferredLatches : DefinitionsOf(n) = 1
    /\ BoundToSingleField => ReferredLatches = {}

====
